---- MODULE Spec2Model ----
(***************************************************************************)
(* Model of the game session engine of the "Who Am I" server:              *)
(* GameGateway (src/src/game/README.md, lines 121-661), the operations of  *)
(* RoomsService that write the Room row (src/unnamed/part_015) and those   *)
(* of CardsService that write the Card rows or the cache entry that        *)
(* getRandomCards reads (src/src/cards/cards.service.ts).                  *)
(*                                                                         *)
(* One room is modelled, with a creator, a guest and a third user.  The    *)
(* server runs on a single-threaded event loop: a handler runs without     *)
(* interruption up to its next `await`, and other handlers and timers may  *)
(* run while it waits.  Every action below is one such uninterrupted run,  *)
(* or the execution of one call by the database or the cache; a handler    *)
(* that is waiting is an entry of the bag `tasks`.                          *)
(*                                                                         *)
(* Every call to the database or to the cache is two steps: the step in    *)
(* which the store executes it (a write changes the rows, a read takes the *)
(* rows the handler will be given) and the step in which the handler       *)
(* resumes with the result.  Calls in flight are executed in any order and *)
(* their handlers resume in any order, so that a handler acts on the rows  *)
(* as they were when its read was executed, whatever has been written      *)
(* since.  The first call of a command is executed in the step in which    *)
(* the command arrives: its handler does nothing before it.                *)
(***************************************************************************)
EXTENDS Naturals, Integers, Sequences, FiniteSets, Bags, TLC

(***************************************************************************)
(* Bounds of the model.                                                    *)
(***************************************************************************)
\* makeGuess commands accepted as correct in one run: caps the scores
MaxCorrect == 2
\* handlers waiting on an await plus scheduled startNewRound calls
MaxInFlight == 2
\* games the creator starts in the room in one run
MaxGames == 2

(***************************************************************************)
(* Program constants.                                                      *)
(***************************************************************************)
DefaultMaxRounds == 5
DefaultTimePerRound == 60
Award == 10
\* the number NaN, which no score that is a number equals
NaN == 0 - 1

Creator == "A"
Guest == "B"
Stranger == "C"
NoUser == "none"
Users == {Creator, Guest, Stranger}
\* the users that send game commands
Players == {Creator, Guest}
\* client.userId of a connection with no user attached (undefined)
Anonymous == "undefined"

\* Ids are tagged so that a room id and a game id can be compared, and
\* are never equal
Room == <<"room", 1>>
NoSuchRoom == <<"room", 0>>
RoomIds == {Room, NoSuchRoom}
GameId(g) == <<"game", g>>

\* the values of room.settings the room of the model may have: maxRounds
\* and timePerRound, 0 standing for a key that is not set.  RoomsService
\* stores the settings it is given without looking at the numbers, so that
\* maxRounds may be negative.
Settings == {[maxRounds |-> 1, timePerRound |-> 30],
             [maxRounds |-> 2, timePerRound |-> 0],
             [maxRounds |-> 0 - 1, timePerRound |-> 30]}

Username(u) == CASE u = Creator -> "alice"
                 [] u = Guest -> "bob"
                 [] OTHER -> "carol"

(***************************************************************************)
(* Cards and guess texts.  Strings are sequences of characters so that the *)
(* case-insensitive comparison is computed, not assumed.                   *)
(***************************************************************************)
NoCard == 0
NoTimer == [id |-> 0]
Cards == {1, 2}
CardName(c) == IF c = 1 THEN <<"E", "l">> ELSE <<"B", "o">>
Card(c) == [id |-> c, name |-> CardName(c)]
\* card.hints: one hint per card
Hints(c) == <<<<"h", c>>>>
GuessTexts == {<<"E", "l">>, <<"e", "L">>, <<"B", "o">>}

toLowerCaseChar(ch) == CASE ch = "E" -> "e"
                         [] ch = "L" -> "l"
                         [] ch = "B" -> "b"
                         [] ch = "O" -> "o"
                         [] OTHER -> ch
toLowerCase(s) == [i \in 1..Len(s) |-> toLowerCaseChar(s[i])]

isCorrect(card, guess) == toLowerCase(CardName(card)) = toLowerCase(guess)

VARIABLES
    catalogue,   \* the Card rows: per card id "none" (never created),
                 \* "active", "inactive" (isActive false) or "deleted"
    cached,      \* the cache entry of getRandomCards for the room's
                 \* filters: NoEntry, or the entry with the list it holds
    room,        \* the Room row: [status, isActive, guestId, maxRounds,
                 \* timePerRound], the last two being its settings
    games,       \* Game rows: sequence of [status], index = game id
    gameCards,   \* GameCard rows: set of [gameId, cardId, round]
    gameResults, \* GameResult rows, a bag
    joined,      \* users whose socket is in the room's channel
    heap,        \* GameState objects ever created, index = game id
    gameStates,  \* the gameStates map entry of the room: heap index, 0 = none
    roomTimers,  \* the roomTimers map entry of the room: timer id, 0 = none
    timers,      \* the live round timers: set of [id, stamp, guessed]
    pending,     \* scheduled setTimeout(() => startNewRound(roomId), 3000)
    tasks,       \* handlers waiting on an await (a bag)
    now,         \* logical clock read by Date.now()
    out,         \* notifications emitted by the last step, in order
    fired,       \* the timer that fired in the last step, NoTimer = none
    hist         \* per GameState object: history kept for the properties

vars == <<catalogue, cached, room, games, gameCards, gameResults, joined, heap, gameStates,
          roomTimers, timers, pending, tasks, now, out, fired, hist>>

\* the rows of the database and the cache entry
store == <<catalogue, cached, room, games, gameCards, gameResults>>

\* the memory of the gateway, the clock and the history
memory == <<joined, heap, gameStates, roomTimers, timers, pending, now, hist>>

\* A notification: to is a user (client.emit) or ToRoom
\* (this.server.to(roomId).emit), which reaches the sockets in the channel
ToRoom == "room"
Emit(to, ev, data) == [to |-> to, ev |-> ev, data |-> data]
ErrorTo(u, message) == Emit(u, "error", [message |-> message])

\* what a handler holds of the Room row when it has not read it, or when
\* its room.findUnique has returned null
NoRoomRead == [status |-> "none", isActive |-> FALSE, guestId |-> NoUser,
               maxRounds |-> 0, timePerRound |-> 0]

\* room.findUnique({where: {id}}) as the database executes it: the row as
\* it is now, or null
findUnique(rid) == IF rid = Room THEN room ELSE NoRoomRead

\* getObject(cacheKey): null when the cache has no entry for the key; an
\* entry <<cards>> holds the list that was stored, which may be the empty
\* list
NoEntry == <<>>

\* A waiting handler: which await it is at, the GameState object it holds
\* (s), the game id it holds (0 = undefined), the caller, and the card
\* startNewRound holds in its local variable.  The other locals are filled
\* in by the handlers that have them:
\*   own    the GameState object of the handleStartGame that called
\*          startNewRound, 0 in a scheduled startNewRound
\*   roomId the room id a joinRoom or startGame command carries
\*   seen   the Room row as the latest room.findUnique of the handler
\*          returned it
\*   exists whether the findUnique or findFirst of a CardsService or
\*          RoomsService operation returned a row
\*   i      the index of the GameResult row endGame is writing
\*   round  the round number passed to gameCard.create or updateMany
\*   active the isActive value CardsService.create or update writes
\*   cachedCards  what getObject returned to getRandomCards
\*   totalCards   what card.count returned to getRandomCards
\*   offset       the offset getRandomCards has drawn
\*   cards        the cards getRandomCards has found
Task(kind, s, gameId, user, card) ==
    [kind |-> kind, s |-> s, gameId |-> gameId, user |-> user, card |-> card,
     own |-> 0, roomId |-> Room, seen |-> NoRoomRead, exists |-> FALSE,
     i |-> 0, round |-> 0, active |-> FALSE, cachedCards |-> NoEntry,
     totalCards |-> 0, offset |-> 0, cards |-> <<>>]

\* the Card rows with isActive true; the filters of the room let every
\* active card pass
Active == {c \in Cards : catalogue[c] = "active"}

\* History of one GameState object:
\*   awards   correct guesses accepted for the card now in play
\*   accepted correct guesses accepted for the object
\*   ended    gameEnded broadcasts sent for it
\*   started  newRound broadcasts sent for it
\*   round, last   round number and currentGuesser of its latest newRound
\*   before   currentGuesser of the latest newRound that carried the round
\*            number round - 1, NoUser when there was none
\*   resolved round number of the latest correctGuess broadcast that
\*            scheduled a next round and has not been followed by a newRound
\*   timedOut a roundTimeout was broadcast for the card now in play
\*   game     the id of the Game row its handleStartGame created
NoHist == [awards |-> 0, accepted |-> 0, ended |-> 0, started |-> 0,
           round |-> 0, last |-> NoUser, before |-> NoUser, resolved |-> 0,
           timedOut |-> FALSE, game |-> 0]

\* The gateway as constructed, with a room that RoomsService has created
\* with any of the settings, with or without a guest, no cache entry, and a
\* catalogue of one active card or of none
Init ==
    /\ catalogue \in {[c \in Cards |-> IF c = a THEN "active" ELSE "none"] :
                         a \in Cards \cup {NoCard}}
    /\ cached = NoEntry
    /\ room \in {[status |-> "WAITING", isActive |-> TRUE, guestId |-> g,
                  maxRounds |-> st.maxRounds,
                  timePerRound |-> st.timePerRound] :
                   g \in {Guest, NoUser}, st \in Settings}
    /\ games = <<>>
    /\ gameCards = {}
    /\ gameResults = EmptyBag
    /\ joined = {}
    /\ heap = <<>>
    /\ gameStates = 0
    /\ roomTimers = 0
    /\ timers = {}
    /\ pending = 0
    /\ tasks = EmptyBag
    /\ now = 0
    /\ out = <<>>
    /\ fired = NoTimer
    /\ hist = <<>>

(***************************************************************************)
(* Helpers shared by the handlers.                                         *)
(***************************************************************************)
\* clearTimeout(this.roomTimers.get(roomId)) when the map has the room
clearTimeout(ts, id) == {tm \in ts : tm.id # id}

\* setTimeout(() => this.handleRoundTimeout(roomId), ...): the new timer,
\* with a handle that no live timer and no map entry has.  stamp is the
\* roundStartTime of the round the timer is armed for and guessed tells
\* that a correct guess resolved that round (history only).
setTimeout(ts, stamp) ==
    LET handle == CHOOSE id \in 1..(Cardinality(ts) + 2) :
                     /\ id # roomTimers
                     /\ \A tm \in ts : tm.id # id
                     /\ \A j \in 1..(id - 1) :
                           j = roomTimers \/ \E tm \in ts : tm.id = j
    IN  [id |-> handle, stamp |-> stamp, guessed |-> FALSE]

\* handlers in flight and scheduled round starts
InFlight == BagCardinality(tasks) + pending

RECURSIVE SumOver(_, _)
SumOver(f, S) == IF S = {} THEN 0
                 ELSE LET x == CHOOSE y \in S : TRUE
                      IN f[x] + SumOver(f, S \ {x})

\* the correct guesses accepted so far, over all games: the executions of
\* `scores[userId] += 10`
Accepted ==
    SumOver([s \in 1..Len(heap) |-> hist[s].accepted], 1..Len(heap))

\* the card in play of GameState object s has been announced: no
\* startNewRound that has set it is still on its way to its newRound
Announced(s) ==
    \A t \in BagToSet(tasks) :
        t.s = s => t.kind \notin {"snrRoomData", "snrRoomDataFound",
                                  "snrCreate", "snrCreated"}

\* history: a correctGuess broadcast for GameState object s resolves the
\* round of the card in play when that card has been announced and the
\* guess was accepted for it
Resolves(s) == Announced(s) /\ hist[s].awards >= 1

\* the games of the room that exist or that a waiting handleStartGame of
\* the creator may still ask, or has asked, the database to create
GamesBegun ==
    LET creating == {t \in BagToSet(tasks) :
                        /\ t.kind \in {"startFound", "startCreate"}
                        /\ t.user = Creator
                        /\ t.roomId = Room} IN
    Len(games) + SumOver([t \in creating |-> CopiesIn(t, tasks)], creating)

RemoveTask(t) == tasks (-) SetToBag({t})
AddTask(bag, t) == bag (+) SetToBag({t})

\* a command or an HTTP request arrives and its first call is executed: the
\* handler waits as task t
Arrives(t) ==
    /\ InFlight < MaxInFlight
    /\ tasks' = AddTask(tasks, t)
    /\ out' = <<>>
    /\ fired' = NoTimer
    /\ UNCHANGED <<store, memory>>

\* the handler that waits as t at the await `from` goes on to wait as next:
\* its call is executed, or it resumes and issues its next call
Waits(t, from, next) ==
    /\ BagIn(t, tasks) /\ t.kind = from
    /\ tasks' = AddTask(RemoveTask(t), next)
    /\ out' = <<>>
    /\ fired' = NoTimer

\* the handler that waits as t at the await `from` resumes and runs to its
\* end, or to the exception it throws to an HTTP caller
Returns(t, from) ==
    /\ BagIn(t, tasks) /\ t.kind = from
    /\ tasks' = RemoveTask(t)
    /\ out' = <<>>
    /\ fired' = NoTimer
    /\ UNCHANGED <<store, memory>>

\* what `card` is in a payload: the card object, or undefined
CardOrUndefined(c) == IF c = NoCard THEN [id |-> NoCard] ELSE Card(c)

\* the GameState object as serialised into a payload
Payload(st) == [st EXCEPT !.currentCard = CardOrUndefined(st.currentCard)]

\* this.server.to(roomId).emit('gameStarted', {gameId, gameState}) of the
\* handleStartGame that holds the GameState object own
GameStarted(hp, own, gameId) ==
    Emit(ToRoom, "gameStarted",
         [gameId |-> GameId(gameId), gameState |-> Payload(hp[own])])

(***************************************************************************)
(* handleJoinRoom                                                          *)
(***************************************************************************)
\* a joinRoom command arrives and the database executes the room.findUnique
\* of handleJoinRoom, which takes the Room row as it is now
HandleJoinRoom(u, rid) ==
    Arrives([Task("joinFound", 0, 0, u, NoCard)
                EXCEPT !.roomId = rid, !.seen = findUnique(rid)])

\* handleJoinRoom resumes with the Room row it was given and runs up to
\* `await this.friendsService.setUserInGame`, or to its end when the caller
\* is refused
JoinRoomChecks(t) ==
    /\ BagIn(t, tasks) /\ t.kind = "joinFound"
    /\ IF t.seen = NoRoomRead
       THEN /\ out' = <<ErrorTo(t.user, "Room not found")>>
            /\ tasks' = RemoveTask(t)
            /\ UNCHANGED joined
       ELSE IF Creator # t.user /\ t.seen.guestId # t.user
       THEN /\ out' = <<ErrorTo(t.user, "Access denied")>>
            /\ tasks' = RemoveTask(t)
            /\ UNCHANGED joined
       ELSE /\ joined' = joined \cup {t.user}
            /\ out' = <<Emit(ToRoom, "userJoined",
                             [userId |-> t.user,
                              username |-> Username(t.user)])>>
            /\ tasks' = AddTask(RemoveTask(t), [t EXCEPT !.kind = "join"])
    /\ fired' = NoTimer
    /\ UNCHANGED <<catalogue, cached, room, games, gameCards, gameResults, heap, gameStates,
                   roomTimers, timers, pending, now, hist>>

\* handleJoinRoom resumes after setUserInGame, which catches every error of
\* its own and cannot reject: the session of the room, when there is one,
\* is sent to the caller, then joinedRoom
JoinRoomContinue(t) ==
    /\ BagIn(t, tasks) /\ t.kind = "join"
    /\ out' = (IF gameStates # 0
               THEN <<Emit(t.user, "gameState", Payload(heap[gameStates]))>>
               ELSE <<>>)
              \o <<Emit(t.user, "joinedRoom", [roomId |-> Room])>>
    /\ tasks' = RemoveTask(t)
    /\ fired' = NoTimer
    /\ UNCHANGED <<catalogue, cached, room, games, gameCards, gameResults, joined, heap,
                   gameStates, roomTimers, timers, pending, now, hist>>

\* handleJoinRoom with its room.findUnique rejected: the catch block logs
\* the error and tells the caller; the socket has joined nothing
JoinRoomReadFails(u, rid) ==
    /\ out' = <<ErrorTo(u, "Failed to join room")>>
    /\ fired' = NoTimer
    /\ UNCHANGED <<catalogue, cached, room, games, gameCards, gameResults, joined, heap,
                   gameStates, roomTimers, timers, pending, tasks, now, hist>>

(***************************************************************************)
(* handleLeaveRoom                                                         *)
(***************************************************************************)
\* a variant of handleLeaveRoom that stops the round timer of the room
HandleLeaveRoomStopsTimer(u) ==
    /\ IF u \notin joined
       THEN /\ out' = <<>>
            /\ UNCHANGED <<joined, tasks, timers>>
       ELSE /\ InFlight < MaxInFlight
            /\ joined' = joined \ {u}
            /\ timers' = clearTimeout(timers, roomTimers)
            /\ out' = <<Emit(ToRoom, "userLeft",
                             [userId |-> u, username |-> Username(u)])>>
            /\ tasks' = AddTask(tasks, Task("leave", 0, 0, u, NoCard))
    /\ fired' = NoTimer
    /\ UNCHANGED <<catalogue, cached, room, games, gameCards, gameResults, heap, gameStates,
                   roomTimers, pending, now, hist>>

\* handleLeaveRoom up to `await this.friendsService.setUserOnline`, or to
\* its end for a socket that is in no room
HandleLeaveRoom(u) ==
    /\ IF u \notin joined
       THEN /\ out' = <<>>
            /\ UNCHANGED <<joined, tasks>>
       ELSE /\ InFlight < MaxInFlight
            /\ joined' = joined \ {u}
            /\ out' = <<Emit(ToRoom, "userLeft",
                             [userId |-> u, username |-> Username(u)])>>
            /\ tasks' = AddTask(tasks, Task("leave", 0, 0, u, NoCard))
    /\ fired' = NoTimer
    /\ UNCHANGED <<catalogue, cached, room, games, gameCards, gameResults, heap, gameStates,
                   roomTimers, timers, pending, now, hist>>

\* handleLeaveRoom resumes after setUserOnline, which catches every error
\* of its own and cannot reject: leftRoom is sent to the caller
LeaveRoomContinue(t) ==
    /\ BagIn(t, tasks) /\ t.kind = "leave"
    /\ out' = <<Emit(t.user, "leftRoom", [roomId |-> Room])>>
    /\ tasks' = RemoveTask(t)
    /\ fired' = NoTimer
    /\ UNCHANGED <<catalogue, cached, room, games, gameCards, gameResults, joined, heap,
                   gameStates, roomTimers, timers, pending, now, hist>>

(***************************************************************************)
(* RoomsService: the HTTP operations that write the Room row.  Their       *)
(* exceptions go to the HTTP caller; no socket is told anything.           *)
(***************************************************************************)
\* a joinRoom request arrives and the database executes its
\* room.findUnique
RoomsJoinRoom(u) ==
    Arrives([Task("roomsJoinFound", 0, 0, u, NoCard) EXCEPT !.seen = room])

\* joinRoom resumes with the Room row it was given: it throws, or issues
\* room.findFirst for the active room of the caller
RoomsJoinRoomChecks(t) ==
    /\ IF \/ ~t.seen.isActive
          \/ t.seen.status # "WAITING"
          \/ Creator = t.user
          \/ t.seen.guestId # NoUser
       THEN Returns(t, "roomsJoinFound")
       ELSE /\ Waits(t, "roomsJoinFound", [t EXCEPT !.kind = "roomsJoinActive"])
            /\ UNCHANGED <<store, memory>>

\* the database executes the room.findFirst of a waiting joinRoom: it finds
\* the room when it is active, WAITING or PLAYING, and the caller is its
\* creator or its guest
RoomsJoinRoomFindActive(t) ==
    /\ Waits(t, "roomsJoinActive",
             [t EXCEPT !.kind = "roomsJoinActiveFound",
                       !.exists = /\ t.user \in {Creator, room.guestId}
                                  /\ room.isActive
                                  /\ room.status \in {"WAITING", "PLAYING"}])
    /\ UNCHANGED <<store, memory>>

\* joinRoom resumes with userActiveRoom: it throws when there is one, and
\* issues room.update otherwise
RoomsJoinRoomActive(t) ==
    /\ IF t.exists
       THEN Returns(t, "roomsJoinActiveFound")
       ELSE /\ Waits(t, "roomsJoinActiveFound",
                     [t EXCEPT !.kind = "roomsJoinUpdate"])
            /\ UNCHANGED <<store, memory>>

\* the database executes the room.update of a waiting joinRoom: the caller
\* is the guest of the room
RoomsJoinRoomUpdate(t) ==
    /\ Waits(t, "roomsJoinUpdate", [t EXCEPT !.kind = "roomsJoined"])
    /\ room' = [room EXCEPT !.guestId = t.user]
    /\ UNCHANGED <<catalogue, cached, games, gameCards, gameResults, memory>>

\* joinRoom resumes after room.update and runs to its end: it writes the
\* cache of the rooms and answers the HTTP caller
RoomsJoinRoomReturn(t) == Returns(t, "roomsJoined")

\* a leaveRoom request arrives and the database executes its
\* room.findUnique
RoomsLeaveRoom(u) ==
    Arrives([Task("roomsLeaveFound", 0, 0, u, NoCard) EXCEPT !.seen = room])

\* leaveRoom resumes with the Room row it was given: it throws for a user
\* who is neither creator nor guest in that row, or issues room.update
RoomsLeaveRoomChecks(t) ==
    /\ IF Creator # t.user /\ t.seen.guestId # t.user
       THEN Returns(t, "roomsLeaveFound")
       ELSE /\ Waits(t, "roomsLeaveFound", [t EXCEPT !.kind = "roomsLeave"])
            /\ UNCHANGED <<store, memory>>

\* the database executes the room.update of a waiting leaveRoom: the
\* creator's leaving deactivates the room, the guest's leaving empties the
\* guest seat
RoomsLeaveRoomUpdate(t) ==
    /\ Waits(t, "roomsLeave", [t EXCEPT !.kind = "roomsLeft"])
    /\ room' = IF Creator = t.user
               THEN [room EXCEPT !.isActive = FALSE, !.status = "FINISHED"]
               ELSE [room EXCEPT !.guestId = NoUser]
    /\ UNCHANGED <<catalogue, cached, games, gameCards, gameResults, memory>>

\* leaveRoom resumes after room.update and runs to its end
RoomsLeaveRoomReturn(t) == Returns(t, "roomsLeft")

\* a startGame request arrives and the database executes its
\* room.findUnique
RoomsStartGame(u) ==
    Arrives([Task("roomsStartFound", 0, 0, u, NoCard) EXCEPT !.seen = room])

\* startGame resumes with the Room row it was given: it throws, or issues
\* room.update
RoomsStartGameChecks(t) ==
    /\ IF \/ Creator # t.user
          \/ t.seen.guestId = NoUser
          \/ t.seen.status # "WAITING"
       THEN Returns(t, "roomsStartFound")
       ELSE /\ Waits(t, "roomsStartFound", [t EXCEPT !.kind = "roomsStart"])
            /\ UNCHANGED <<store, memory>>

\* the database executes the room.update of a waiting startGame: the room
\* is PLAYING
RoomsStartGameUpdate(t) ==
    /\ Waits(t, "roomsStart", [t EXCEPT !.kind = "roomsStarted"])
    /\ room' = [room EXCEPT !.status = "PLAYING"]
    /\ UNCHANGED <<catalogue, cached, games, gameCards, gameResults, memory>>

\* startGame resumes after room.update and runs to its end
RoomsStartGameReturn(t) == Returns(t, "roomsStarted")

(***************************************************************************)
(* CardsService: the HTTP operations that write the Card rows.  Each reads *)
(* first, writes the row and then invalidates the cache entries of the     *)
(* cards, the entry of getRandomCards among them.                          *)
(***************************************************************************)
\* the row of the card exists
Exists(c) == catalogue[c] \in {"active", "inactive"}

\* the row state of a card with the given isActive
RowState(active) == IF active THEN "active" ELSE "inactive"

\* a CardsService operation arrives and the database executes its
\* findUnique; an operation that is given no row goes on to throw, whatever
\* it was asked to write
CardsBegin(kind, c, active, exists) ==
    Arrives(IF exists
            THEN [Task(kind, 0, 0, NoUser, c)
                     EXCEPT !.active = active, !.exists = TRUE]
            ELSE Task(kind, 0, 0, NoUser, NoCard))

\* a CardsService operation resumes with the row its findUnique returned:
\* it throws when there is none, or issues its write
CardsChecks(t, from, write) ==
    /\ IF ~t.exists
       THEN Returns(t, from)
       ELSE /\ Waits(t, from, [t EXCEPT !.kind = write, !.exists = FALSE])
            /\ UNCHANGED <<store, memory>>

\* the database executes the write of a waiting CardsService operation,
\* which goes on without the card
CardsWrite(t, kind, cat) ==
    /\ Waits(t, kind, [t EXCEPT !.kind = "cardWritten", !.card = NoCard,
                                !.active = FALSE])
    /\ catalogue' = cat
    /\ UNCHANGED <<cached, room, games, gameCards, gameResults, memory>>

\* a create request arrives and the database executes the
\* category.findUnique of create, which finds the category; c is the id the
\* database will give the card, which no row has had
CardsCreate(c, active) ==
    /\ catalogue[c] = "none"
    /\ \A t \in BagToSet(tasks) :
          ~(t.kind \in {"cardCreateFound", "cardCreate"} /\ t.card = c)
    /\ CardsBegin("cardCreateFound", c, active, TRUE)

\* create resumes with the category and issues card.create
CardsCreateChecks(t) == CardsChecks(t, "cardCreateFound", "cardCreate")

\* the database executes card.create
CardsCreateWrite(t) ==
    /\ t.kind = "cardCreate"
    /\ CardsWrite(t, "cardCreate",
                  [catalogue EXCEPT ![t.card] = RowState(t.active)])

\* an update(id, {isActive}) request arrives and the database executes the
\* card.findUnique of update
CardsUpdate(c, active) == CardsBegin("cardUpdateFound", c, active, Exists(c))

\* update resumes with existingCard: it throws NotFound, or issues
\* card.update
CardsUpdateChecks(t) == CardsChecks(t, "cardUpdateFound", "cardUpdate")

\* the database executes card.update, or refuses it when the row has been
\* deleted since the operation read it
CardsUpdateWrite(t) ==
    /\ t.kind = "cardUpdate"
    /\ IF Exists(t.card)
       THEN CardsWrite(t, "cardUpdate",
                       [catalogue EXCEPT ![t.card] = RowState(t.active)])
       ELSE Returns(t, "cardUpdate")

\* a remove(id) request arrives and the database executes the
\* card.findUnique of remove
CardsRemove(c) == CardsBegin("cardDeleteFound", c, FALSE, Exists(c))

\* remove resumes with existingCard: it throws NotFound, or issues
\* card.delete
CardsRemoveChecks(t) == CardsChecks(t, "cardDeleteFound", "cardDelete")

\* What the database does when a Card row that GameCard rows refer to is
\* deleted is set by the schema, which the repository does not hold: it
\* refuses the delete, or deletes the GameCard rows with it, or leaves them
ReferentialActions == {"Restrict", "Cascade", "NoAction"}

\* the database executes card.delete, or refuses it: when the row has been
\* deleted since the operation read it, or by the referential action
CardsRemoveWrite(t, onDelete) ==
    /\ BagIn(t, tasks) /\ t.kind = "cardDelete"
    /\ out' = <<>>
    /\ fired' = NoTimer
    /\ IF \/ ~Exists(t.card)
          \/ /\ \E r \in gameCards : r.cardId = t.card
             /\ onDelete = "Restrict"
       THEN /\ tasks' = RemoveTask(t)
            /\ UNCHANGED <<catalogue, gameCards>>
       ELSE /\ catalogue' = [catalogue EXCEPT ![t.card] = "deleted"]
            /\ gameCards' = IF onDelete = "Cascade"
                            THEN {r \in gameCards : r.cardId # t.card}
                            ELSE gameCards
            /\ tasks' = AddTask(RemoveTask(t),
                                [t EXCEPT !.kind = "cardWritten",
                                          !.card = NoCard])
    /\ UNCHANGED <<cached, room, games, gameResults, joined, heap, gameStates,
                   roomTimers, timers, pending, now, hist>>

\* a CardsService operation resumes after its write and issues
\* invalidatePattern('card:*')
CardsWritten(t) ==
    /\ Waits(t, "cardWritten", [t EXCEPT !.kind = "cardInvalidate"])
    /\ UNCHANGED <<store, memory>>

\* the cache executes invalidatePattern('card:*'): the entry of
\* getRandomCards is deleted
CardsInvalidate(t) ==
    /\ Waits(t, "cardInvalidate", [t EXCEPT !.kind = "cardInvalidated"])
    /\ cached' = NoEntry
    /\ UNCHANGED <<catalogue, room, games, gameCards, gameResults, memory>>

\* a CardsService operation resumes after invalidatePattern('card:*') and
\* runs to its end: it invalidates the entries of the categories and
\* answers the HTTP caller
CardsReturn(t) == Returns(t, "cardInvalidated")

(***************************************************************************)
(* handleStartGame                                                         *)
(***************************************************************************)
\* (room.settings as any)?.maxRounds || 5, of the Room row as read
GameMaxRounds(rm) == IF rm.maxRounds # 0 THEN rm.maxRounds
                     ELSE DefaultMaxRounds

\* (room.settings as any)?.timePerRound || 60, of the Room row as read
GameTimePerRound(rm) == IF rm.timePerRound # 0 THEN rm.timePerRound
                        ELSE DefaultTimePerRound

\* the GameState built from the Room row as read
NewGameState(rm) ==
    [roomId |-> Room,
     currentRound |-> 1,
     maxRounds |-> GameMaxRounds(rm),
     timePerRound |-> GameTimePerRound(rm),
     currentCard |-> NoCard,
     roundStartTime |-> 0,
     scores |-> [p \in {Creator, rm.guestId} |-> 0],
     isActive |-> TRUE,
     currentGuesser |-> Creator]

\* a startGame command arrives and the database executes the
\* room.findUnique of handleStartGame, which takes the Room row as it is now
HandleStartGame(u, rid) ==
    Arrives([Task("startFound", 0, 0, u, NoCard)
                EXCEPT !.roomId = rid, !.seen = findUnique(rid)])

\* handleStartGame resumes with the Room row it was given and runs up to
\* `await this.prisma.game.create`, or to its end when the caller is refused
StartGameChecks(t) ==
    /\ BagIn(t, tasks) /\ t.kind = "startFound"
    /\ IF t.seen = NoRoomRead \/ Creator # t.user
       THEN /\ out' = <<ErrorTo(t.user, "Only room creator can start the game")>>
            /\ tasks' = RemoveTask(t)
       ELSE IF t.seen.guestId = NoUser
       THEN /\ out' = <<ErrorTo(t.user, "Need 2 players to start the game")>>
            /\ tasks' = RemoveTask(t)
       ELSE /\ tasks' = AddTask(RemoveTask(t),
                                [t EXCEPT !.kind = "startCreate"])
            /\ out' = <<>>
    /\ fired' = NoTimer
    /\ UNCHANGED <<store, memory>>

\* the database runs the game.create of a waiting handleStartGame: the Game
\* row exists from now on, the handler has not resumed yet
StartGameCreate(t) ==
    /\ BagIn(t, tasks) /\ t.kind = "startCreate"
    /\ games' = Append(games, [roomId |-> Room, status |-> "IN_PROGRESS"])
    /\ tasks' = AddTask(RemoveTask(t), [t EXCEPT !.kind = "startCreated",
                                                 !.gameId = Len(games) + 1])
    /\ out' = <<>>
    /\ fired' = NoTimer
    /\ UNCHANGED <<catalogue, cached, room, gameCards, gameResults, joined, heap,
                   gameStates, roomTimers, timers, pending, now, hist>>

\* handleStartGame resumes with the Game row: it builds the GameState from
\* the Room row it read, stores it and goes on to `await
\* this.prisma.room.update`
StartGameSession(t) ==
    /\ BagIn(t, tasks) /\ t.kind = "startCreated"
    /\ heap' = Append(heap, NewGameState(t.seen))
    /\ hist' = Append(hist, [NoHist EXCEPT !.game = t.gameId])
    /\ gameStates' = Len(heap) + 1
    /\ tasks' = AddTask(RemoveTask(t), [t EXCEPT !.kind = "start",
                                                 !.s = Len(heap) + 1])
    /\ out' = <<>>
    /\ fired' = NoTimer
    /\ UNCHANGED <<catalogue, cached, room, games, gameCards, gameResults, joined,
                   roomTimers, timers, pending, now>>

\* handleStartGame with its room.findUnique rejected: the catch block logs
\* the error and tells the caller
StartGameReadFails(u, rid) ==
    /\ out' = <<ErrorTo(u, "Failed to start game")>>
    /\ fired' = NoTimer
    /\ UNCHANGED <<catalogue, cached, room, games, gameCards, gameResults, joined, heap,
                   gameStates, roomTimers, timers, pending, tasks, now, hist>>

\* handleStartGame resumes with game.create or room.update rejected: the
\* catch block logs the error and tells the caller; a session that was
\* stored stays in the store
StartGameFails(t) ==
    /\ BagIn(t, tasks) /\ t.kind \in {"startCreate", "start"}
    /\ out' = <<ErrorTo(t.user, "Failed to start game")>>
    /\ tasks' = RemoveTask(t)
    /\ fired' = NoTimer
    /\ UNCHANGED <<catalogue, cached, room, games, gameCards, gameResults, joined, heap,
                   gameStates, roomTimers, timers, pending, now, hist>>

(***************************************************************************)
(* endGame                                                                 *)
(***************************************************************************)
\* endGame(roomId) up to its first await, called with the heap, timers and
\* tasks its caller has produced so far
EndGameBegin(hp, ts, tk) ==
    IF gameStates = 0
    THEN /\ heap' = hp
         /\ timers' = ts
         /\ tasks' = tk
         /\ UNCHANGED roomTimers
    ELSE /\ heap' = [hp EXCEPT ![gameStates].isActive = FALSE]
         /\ timers' = clearTimeout(ts, roomTimers)
         /\ roomTimers' = 0
         /\ tasks' = AddTask(tk, Task("end", gameStates, 0, NoUser, NoCard))

\* the users of a set, listed (the sets listed below have one user at most)
Listed(S) == SelectSeq(<<Creator, Guest, Stranger>>, LAMBDA u : u \in S)

\* Object.keys(gameState.scores): the keys in insertion order.  The creator
\* and the guest are inserted when the session is built and their scores
\* are numbers; a key that a correct guess inserts later holds NaN
playerIds(scores) ==
    <<Creator>>
    \o Listed({p \in DOMAIN scores : p # Creator /\ scores[p] # NaN})
    \o Listed({p \in DOMAIN scores : p # Creator /\ scores[p] = NaN})

\* scores[b] - scores[a] as sort takes it: NaN counts as 0
compare(scores, a, b) ==
    IF scores[a] = NaN \/ scores[b] = NaN THEN 0 ELSE scores[b] - scores[a]

\* the insertion of ids[k] into the sorted ids[1..k-1]: it goes before the
\* elements at the end of the list that compare after it
RECURSIVE insert(_, _, _)
insert(scores, done, x) ==
    IF done # <<>> /\ compare(scores, done[Len(done)], x) > 0
    THEN insert(scores, SubSeq(done, 1, Len(done) - 1), x) \o <<done[Len(done)]>>
    ELSE done \o <<x>>

RECURSIVE sorted(_, _)
sorted(scores, ids) ==
    IF ids = <<>> THEN <<>>
    ELSE insert(scores, sorted(scores, SubSeq(ids, 1, Len(ids) - 1)), ids[Len(ids)])

\* playerIds.sort((a, b) => scores[b] - scores[a]): a stable sort, which
\* for so few elements is an insertion sort
sortedPlayers(scores) == sorted(scores, playerIds(scores))

\* scores[a] > scores[b] ? a : b, false when one of the two is NaN
greater(scores, a, b) ==
    IF scores[a] # NaN /\ scores[b] # NaN /\ scores[a] > scores[b] THEN a ELSE b

RECURSIVE reduce(_, _, _)
reduce(scores, a, ids) ==
    IF ids = <<>> THEN a
    ELSE reduce(scores, greater(scores, a, ids[1]), Tail(ids))

\* Object.keys(scores).reduce((a, b) => scores[a] > scores[b] ? a : b)
winner(scores) ==
    LET ids == playerIds(scores) IN reduce(scores, ids[1], Tail(ids))

\* Math.floor(score / 10)
correctGuesses(score) == IF score = NaN THEN NaN ELSE score \div Award

GameResultRows(gameId, st) ==
    LET ids == sortedPlayers(st.scores) IN
    {[gameId |-> GameId(gameId), userId |-> ids[i], score |-> st.scores[ids[i]],
      position |-> i, correctGuesses |-> correctGuesses(st.scores[ids[i]]),
      totalRounds |-> st.maxRounds] : i \in 1..Len(ids)}

\* the awaits of endGame whose call has not been executed: game.findFirst,
\* game.update, gameResult.create and room.update
EndIssued == {"end", "endUpdate", "endResult", "endRoom"}

\* the awaits of endGame, with those whose call has been executed
EndKinds == EndIssued \cup {"endFound", "endUpdated", "endResulted",
                            "endRoomUpdated"}

\* the database executes the game.findFirst of a waiting endGame: it takes
\* the latest Game row of the room (orderBy createdAt desc), or null
EndGameFind(t) ==
    /\ Waits(t, "end", [t EXCEPT !.kind = "endFound", !.gameId = Len(games)])
    /\ UNCHANGED <<store, memory>>

\* endGame resumes with the Game row it was given: it issues game.update
\* for it, or room.update when it was given none
EndGameFound(t) ==
    /\ Waits(t, "endFound",
             IF t.gameId > 0
             THEN [t EXCEPT !.kind = "endUpdate"]
             ELSE [t EXCEPT !.kind = "endRoom"])
    /\ UNCHANGED <<store, memory>>

\* the database executes the game.update of a waiting endGame: the Game row
\* it read is FINISHED
EndGameUpdate(t) ==
    /\ Waits(t, "endUpdate", [t EXCEPT !.kind = "endUpdated"])
    /\ games' = [games EXCEPT ![t.gameId].status = "FINISHED"]
    /\ UNCHANGED <<catalogue, cached, room, gameCards, gameResults, memory>>

\* endGame resumes after game.update: the first gameResult.create is issued
EndGameUpdated(t) ==
    /\ Waits(t, "endUpdated", [t EXCEPT !.kind = "endResult", !.i = 1])
    /\ UNCHANGED <<store, memory>>

\* the database executes the gameResult.create of sortedPlayers[i]: the row
\* is written
EndGameResult(t) ==
    /\ t.kind = "endResult"
    /\ Waits(t, "endResult", [t EXCEPT !.kind = "endResulted"])
    /\ gameResults' =
          gameResults (+)
          SetToBag({r \in GameResultRows(t.gameId, heap[t.s]) :
                       r.position = t.i})
    /\ UNCHANGED <<catalogue, cached, room, games, gameCards, memory>>

\* endGame resumes after the gameResult.create of sortedPlayers[i]: the next
\* create or room.update is issued
EndGameResulted(t) ==
    /\ t.kind = "endResulted"
    /\ Waits(t, "endResulted",
             IF t.i < Len(sortedPlayers(heap[t.s].scores))
             THEN [t EXCEPT !.kind = "endResult", !.i = @ + 1]
             ELSE [t EXCEPT !.kind = "endRoom"])
    /\ UNCHANGED <<store, memory>>

\* the database executes the room.update of a waiting endGame: the Room row
\* is FINISHED
EndGameRoomUpdate(t) ==
    /\ Waits(t, "endRoom", [t EXCEPT !.kind = "endRoomUpdated"])
    /\ room' = [room EXCEPT !.status = "FINISHED"]
    /\ UNCHANGED <<catalogue, cached, games, gameCards, gameResults, memory>>

\* endGame resumes after room.update and runs to its end: gameEnded is
\* broadcast and the map entry of the room deleted
EndGameFinish(t) ==
    /\ BagIn(t, tasks) /\ t.kind = "endRoomUpdated"
    /\ LET st == heap[t.s] IN
       out' = <<Emit(ToRoom, "gameEnded",
                     [finalScores |-> st.scores,
                      winner |-> winner(st.scores)])>>
    /\ gameStates' = 0
    /\ tasks' = RemoveTask(t)
    /\ hist' = [hist EXCEPT ![t.s].ended = @ + 1]
    /\ fired' = NoTimer
    /\ UNCHANGED <<catalogue, cached, room, games, gameCards, gameResults, joined,
                   heap, roomTimers, timers, pending, now>>

\* endGame resumes with the call it waits for rejected, the call not having
\* been executed: the catch block logs the error; nothing is broadcast and
\* the map entry of the room is not deleted.  The writes that were
\* completed before stay.
EndGameFails(t) ==
    /\ BagIn(t, tasks) /\ t.kind \in EndIssued
    /\ out' = <<>>
    /\ tasks' = RemoveTask(t)
    /\ fired' = NoTimer
    /\ UNCHANGED <<catalogue, cached, room, games, gameCards, gameResults, joined, heap,
                   gameStates, roomTimers, timers, pending, now, hist>>

(***************************************************************************)
(* startNewRound                                                           *)
(***************************************************************************)
\* startNewRound(roomId, gameId) up to its first await, called with the
\* tasks its caller has produced so far
StartNewRoundBegin(tk, gameId, u, own) ==
    IF gameStates = 0
    THEN /\ tasks' = tk
         /\ out' = IF own # 0 THEN <<GameStarted(heap, own, gameId)>> ELSE <<>>
         /\ UNCHANGED timers
    ELSE /\ timers' = clearTimeout(timers, roomTimers)
         /\ tasks' = AddTask(tk, [Task("snrRoom", gameStates, gameId, u, NoCard)
                                     EXCEPT !.own = own])
         /\ out' = <<>>

\* the database executes the room.update of a waiting handleStartGame: the
\* room is PLAYING
StartGameRoomUpdate(t) ==
    /\ BagIn(t, tasks) /\ t.kind = "start"
    /\ room' = [room EXCEPT !.status = "PLAYING"]
    /\ tasks' = AddTask(RemoveTask(t), [t EXCEPT !.kind = "started"])
    /\ out' = <<>>
    /\ fired' = NoTimer
    /\ UNCHANGED <<catalogue, cached, games, gameCards, gameResults, joined, heap,
                   gameStates, roomTimers, timers, pending, now, hist>>

\* handleStartGame resumes after room.update and calls startNewRound
StartGameContinue(t) ==
    /\ BagIn(t, tasks) /\ t.kind = "started"
    /\ StartNewRoundBegin(RemoveTask(t), t.gameId, t.user, t.s)
    /\ fired' = NoTimer
    /\ UNCHANGED <<catalogue, cached, room, games, gameCards, gameResults, joined,
                   heap, gameStates, roomTimers, pending, now, hist>>

\* the 3 second delay of a scheduled startNewRound(roomId) has passed
DelayedStartNewRound ==
    /\ pending > 0
    /\ pending' = pending - 1
    /\ StartNewRoundBegin(tasks, 0, NoUser, 0)
    /\ fired' = NoTimer
    /\ UNCHANGED <<catalogue, cached, room, games, gameCards, gameResults, joined, heap,
                   gameStates, roomTimers, now, hist>>

\* the database executes the first room.findUnique of a waiting
\* startNewRound, which takes the Room row for its settings: the filters of
\* the cards, which no operation of the model writes
StartNewRoundRoomRead(t) ==
    /\ Waits(t, "snrRoom", [t EXCEPT !.kind = "snrRoomFound"])
    /\ UNCHANGED <<store, memory>>

\* startNewRound resumes with the Room row and calls getRandomCards with
\* the filters of its settings; getRandomCards runs up to `await
\* this.redisService.getObject`
StartNewRoundRoom(t) ==
    /\ Waits(t, "snrRoomFound", [t EXCEPT !.kind = "grcGet"])
    /\ UNCHANGED <<store, memory>>

\* a variant of the no-cards exit that forgets the card of the last round
NoCardsClearsCard(t) ==
    /\ out' = <<Emit(ToRoom, "error", [message |-> "No cards available"])>>
              \o (IF t.own # 0
                  THEN <<GameStarted(heap, t.own, t.gameId)>> ELSE <<>>)
    /\ tasks' = RemoveTask(t)
    /\ heap' = [heap EXCEPT ![t.s].currentCard = NoCard]
    /\ UNCHANGED <<now, hist>>

\* cards.length === 0: the room is told and startNewRound returns
NoCardsAvailable(t) ==
    /\ out' = <<Emit(ToRoom, "error", [message |-> "No cards available"])>>
              \o (IF t.own # 0
                  THEN <<GameStarted(heap, t.own, t.gameId)>> ELSE <<>>)
    /\ tasks' = RemoveTask(t)
    /\ UNCHANGED <<heap, now, hist>>

\* startNewRound goes on with the cards getRandomCards has returned: with
\* none it tells the room and returns, with one it sets the card of the
\* round and goes on to `await this.prisma.room.findUnique` (room_data);
\* the locals of getRandomCards are gone
StartNewRoundCards(t, cards) ==
    /\ IF Len(cards) = 0
       THEN NoCardsAvailable(t)
       ELSE /\ now' = now + 1
            /\ heap' = [heap EXCEPT ![t.s].currentCard = cards[1],
                                    ![t.s].roundStartTime = now']
            /\ hist' = [hist EXCEPT ![t.s].awards = 0,
                                    ![t.s].timedOut = FALSE]
            /\ tasks' = AddTask(RemoveTask(t),
                                [t EXCEPT !.kind = "snrRoomData",
                                          !.card = cards[1],
                                          !.cachedCards = NoEntry,
                                          !.totalCards = 0,
                                          !.cards = <<>>])
            /\ out' = <<>>
    /\ fired' = NoTimer
    /\ UNCHANGED <<catalogue, cached, room, games, gameCards, gameResults, joined,
                   gameStates, roomTimers, timers, pending>>

(***************************************************************************)
(* CardsService.getRandomCards({count: 1, ...}) with the filters of the    *)
(* room, called by startNewRound or, for a task that holds no GameState    *)
(* object, by GET /cards/random                                            *)
(***************************************************************************)
\* GET /cards/random arrives with the count and the filters startNewRound
\* passes: getRandomCards is called and the cache executes its getObject
CardsGetRandomCards ==
    Arrives([Task("grcGot", 0, 0, NoUser, NoCard)
                EXCEPT !.cachedCards = cached])

\* getRandomCards returns the cards to its caller: the HTTP caller is
\* answered, startNewRound goes on
GetRandomCardsReturns(t, cards) ==
    IF t.s = 0
    THEN /\ tasks' = RemoveTask(t)
         /\ out' = <<>>
         /\ fired' = NoTimer
         /\ UNCHANGED <<store, memory>>
    ELSE StartNewRoundCards(t, cards)

\* the cache executes the getObject of a waiting getRandomCards: it takes
\* the entry of the key as it is now
GetRandomCardsGet(t) ==
    /\ Waits(t, "grcGet", [t EXCEPT !.kind = "grcGot", !.cachedCards = cached])
    /\ UNCHANGED <<store, memory>>

\* getRandomCards resumes with cachedCards: an entry, which is an array and
\* so is truthy also when it is empty, is returned; with no entry
\* card.count is issued
GetRandomCardsCached(t) ==
    /\ BagIn(t, tasks) /\ t.kind = "grcGot"
    /\ IF t.cachedCards # NoEntry
       THEN GetRandomCardsReturns(t, t.cachedCards[1])
       ELSE /\ Waits(t, "grcGot", [t EXCEPT !.kind = "grcCount"])
            /\ UNCHANGED <<store, memory>>

\* the database executes the card.count of a waiting getRandomCards: the
\* number of active cards as it is now
GetRandomCardsCount(t) ==
    /\ Waits(t, "grcCount", [t EXCEPT !.kind = "grcCounted",
                                      !.totalCards = Cardinality(Active)])
    /\ UNCHANGED <<store, memory>>

\* generateRandomOffsets(1, total): Math.floor(Math.random() * total)
generateRandomOffsets(total) == 0..(total - 1)

\* getRandomCards resumes with totalCards: with no card it returns the
\* empty list, which it does not cache; otherwise it draws an offset and
\* issues card.findMany({skip: offset, take: 1}); totalCards is not 0 from
\* here on
GetRandomCardsCounted(t) ==
    /\ BagIn(t, tasks) /\ t.kind = "grcCounted"
    /\ IF t.totalCards = 0
       THEN GetRandomCardsReturns(t, <<>>)
       ELSE /\ \E offset \in generateRandomOffsets(t.totalCards) :
                  Waits(t, "grcCounted", [t EXCEPT !.kind = "grcFind",
                                                   !.offset = offset,
                                                   !.totalCards = 0])
            /\ UNCHANGED <<store, memory>>

\* card.findMany({where, skip, take: 1}) as the database executes it: the
\* lists it may return.  The query has no orderBy, so that any of the
\* active cards may be the one at the offset; there is none when the offset
\* is past the last of them
findMany(skip) ==
    IF skip < Cardinality(Active) THEN {<<c>> : c \in Active} ELSE {<<>>}

\* the database executes the card.findMany of a waiting getRandomCards
GetRandomCardsFind(t) ==
    /\ t.kind = "grcFind"
    /\ \E found \in findMany(t.offset) :
          Waits(t, "grcFind", [t EXCEPT !.kind = "grcFound", !.cards = found,
                                        !.offset = 0])
    /\ UNCHANGED <<store, memory>>

\* getRandomCards resumes with the cards found: with none (fewer than the
\* one asked for, and fewer than totalCards, which is 1 at least here) it
\* issues the additional card.findMany, with one it issues setObject
GetRandomCardsFound(t) ==
    /\ Waits(t, "grcFound",
             IF Len(t.cards) < 1
             THEN [t EXCEPT !.kind = "grcMore"]
             ELSE [t EXCEPT !.kind = "grcSet"])
    /\ UNCHANGED <<store, memory>>

\* the database executes the additional card.findMany({where: {...where,
\* id: {notIn: []}}, take: 1}) of a waiting getRandomCards
GetRandomCardsMore(t) ==
    /\ t.kind = "grcMore"
    /\ \E found \in findMany(0) :
          Waits(t, "grcMore", [t EXCEPT !.kind = "grcMoreFound",
                                        !.cards = found])
    /\ UNCHANGED <<store, memory>>

\* getRandomCards resumes with the additional cards and issues setObject
\* with the list it has, which may be empty
GetRandomCardsMoreFound(t) ==
    /\ Waits(t, "grcMoreFound", [t EXCEPT !.kind = "grcSet"])
    /\ UNCHANGED <<store, memory>>

\* the cache executes the setObject of a waiting getRandomCards: the entry
\* holds the list
GetRandomCardsCache(t) ==
    /\ Waits(t, "grcSet", [t EXCEPT !.kind = "grcSetDone"])
    /\ cached' = <<t.cards>>
    /\ UNCHANGED <<catalogue, room, games, gameCards, gameResults, memory>>

\* getRandomCards resumes after setObject and returns the list
GetRandomCardsReturn(t) ==
    /\ BagIn(t, tasks) /\ t.kind = "grcSetDone"
    /\ GetRandomCardsReturns(t, t.cards)

\* the cache entry of getRandomCards has lived its two minutes
CacheExpires ==
    /\ cached # NoEntry
    /\ cached' = NoEntry
    /\ out' = <<>>
    /\ fired' = NoTimer
    /\ UNCHANGED <<catalogue, room, games, gameCards, gameResults, joined, heap,
                   gameStates, roomTimers, timers, pending, tasks, now, hist>>

(***************************************************************************)
(* startNewRound, from the card to the newRound                            *)
(***************************************************************************)
\* the database executes the second room.findUnique of a waiting
\* startNewRound (room_data), which takes the Room row as it is now
StartNewRoundRoomDataRead(t) ==
    /\ Waits(t, "snrRoomData", [t EXCEPT !.kind = "snrRoomDataFound",
                                         !.seen = room])
    /\ UNCHANGED <<store, memory>>

\* the guesser switch of startNewRound, with the Room row as read
switchGuesser(st, rm) ==
    IF rm.guestId # NoUser
    THEN [st EXCEPT !.currentGuesser =
              IF st.currentGuesser = Creator THEN rm.guestId ELSE Creator]
    ELSE st

\* the end of startNewRound: newRound is broadcast and the round timer armed
Announce(t, hp) ==
    LET st == hp[t.s]
        h == hist[t.s] IN
    /\ out' = <<Emit(ToRoom, "newRound",
                     [round |-> st.currentRound,
                      card |-> Card(t.card),
                      currentGuesser |-> st.currentGuesser,
                      timeLimit |-> st.timePerRound])>>
              \o (IF t.own # 0 THEN <<GameStarted(hp, t.own, t.gameId)>> ELSE <<>>)
    /\ LET tm == setTimeout(timers, st.roundStartTime) IN
       /\ timers' = timers \cup {tm}
       /\ roomTimers' = tm.id
    /\ tasks' = RemoveTask(t)
    /\ hist' = [hist EXCEPT ![t.s] =
                  [h EXCEPT !.started = @ + 1,
                            !.round = st.currentRound,
                            !.last = st.currentGuesser,
                            !.before = IF st.currentRound = h.round THEN @
                                       ELSE IF st.currentRound = h.round + 1
                                       THEN h.last ELSE NoUser,
                            !.resolved = 0]]

\* startNewRound resumes with room_data: it switches the guesser by the row
\* it was given and, with no gameId, goes on to the end; with a gameId it
\* issues gameCard.create and waits for it
StartNewRoundRoomData(t) ==
    /\ BagIn(t, tasks) /\ t.kind = "snrRoomDataFound"
    /\ heap' = [heap EXCEPT ![t.s] = switchGuesser(@, t.seen)]
    /\ IF t.gameId # 0
       THEN /\ tasks' = AddTask(RemoveTask(t),
                                [t EXCEPT !.kind = "snrCreate",
                                          !.round = heap[t.s].currentRound])
            /\ out' = <<>>
            /\ UNCHANGED <<timers, roomTimers, hist>>
       ELSE Announce(t, heap')
    /\ fired' = NoTimer
    /\ UNCHANGED <<catalogue, cached, room, games, gameCards, gameResults, joined,
                   gameStates, pending, now>>

\* the database executes the gameCard.create of a waiting startNewRound:
\* the GameCard row is written
StartNewRoundCreate(t) ==
    /\ BagIn(t, tasks) /\ t.kind = "snrCreate"
    /\ gameCards' = gameCards \cup
                     {[gameId |-> GameId(t.gameId), cardId |-> t.card,
                       round |-> t.round,
                       isGuessed |-> FALSE, guessedBy |-> NoUser]}
    /\ tasks' = AddTask(RemoveTask(t), [t EXCEPT !.kind = "snrCreated"])
    /\ out' = <<>>
    /\ fired' = NoTimer
    /\ UNCHANGED <<catalogue, cached, room, games, gameResults, joined, heap,
                   gameStates, roomTimers, timers, pending, now, hist>>

\* startNewRound resumes after gameCard.create and runs to its end
StartNewRoundCreated(t) ==
    /\ BagIn(t, tasks) /\ t.kind = "snrCreated"
    /\ Announce(t, heap)
    /\ fired' = NoTimer
    /\ UNCHANGED <<catalogue, cached, room, games, gameCards, gameResults, joined,
                   heap, gameStates, pending, now>>

\* the awaits of startNewRound and of the getRandomCards it called whose
\* call has not been executed
RoundIssued == {"snrRoom", "grcGet", "grcCount", "grcFind", "grcMore",
                "grcSet", "snrRoomData", "snrCreate"}

\* startNewRound resumes with one of its awaited calls rejected, the call
\* not having been executed (room.findUnique, the calls of getRandomCards,
\* gameCard.create): the catch block logs the error and startNewRound
\* returns; a handleStartGame that called it goes on to send gameStarted
StartNewRoundFails(t) ==
    /\ BagIn(t, tasks)
    /\ t.kind \in RoundIssued
    /\ t.s # 0
    /\ out' = (IF t.own # 0
               THEN <<GameStarted(heap, t.own, t.gameId)>> ELSE <<>>)
    /\ tasks' = RemoveTask(t)
    /\ fired' = NoTimer
    /\ UNCHANGED <<catalogue, cached, room, games, gameCards, gameResults, joined, heap,
                   gameStates, roomTimers, timers, pending, now, hist>>

(***************************************************************************)
(* handleRoundTimeout: a round timer fires                                 *)
(***************************************************************************)
HandleRoundTimeout(tm) ==
    /\ tm \in timers
    /\ fired' = tm
    /\ LET ts == timers \ {tm} IN
       IF gameStates = 0
       THEN /\ timers' = ts
            /\ out' = <<>>
            /\ UNCHANGED <<heap, roomTimers, pending, tasks>>
       ELSE LET st == heap[gameStates]
                hp == [heap EXCEPT ![gameStates].currentRound = @ + 1] IN
            /\ out' = <<Emit(ToRoom, "roundTimeout",
                             [round |-> st.currentRound,
                              correctAnswer |->
                                  IF st.currentCard = NoCard THEN <<>>
                                  ELSE CardName(st.currentCard)])>>
            /\ InFlight < MaxInFlight
            /\ IF hp[gameStates].currentRound > st.maxRounds
               THEN /\ EndGameBegin(hp, ts, tasks)
                    /\ UNCHANGED pending
               ELSE /\ heap' = hp
                    /\ timers' = ts
                    /\ pending' = pending + 1
                    /\ UNCHANGED <<roomTimers, tasks>>
    /\ hist' = IF gameStates = 0 THEN hist
               ELSE [hist EXCEPT ![gameStates].timedOut = TRUE]
    /\ UNCHANGED <<catalogue, cached, room, games, gameCards, gameResults, joined,
                   gameStates, now>>

(***************************************************************************)
(* handleMakeGuess                                                         *)
(***************************************************************************)
\* a variant in which a wrong guess passes the turn to the other player
IncorrectGuessPassesTurn(u, guess) ==
    /\ out' = <<Emit(ToRoom, "incorrectGuess",
                     [guesser |-> Username(u), guess |-> guess])>>
    /\ heap' = [heap EXCEPT ![gameStates].currentGuesser =
                    IF @ = Creator THEN Guest ELSE Creator]
    /\ UNCHANGED <<tasks, hist>>

\* the else branch: the guess does not match the card's name
IncorrectGuess(u, guess) ==
    /\ out' = <<Emit(ToRoom, "incorrectGuess",
                     [guesser |-> Username(u), guess |-> guess])>>
    /\ UNCHANGED <<heap, tasks, hist>>

\* gameState.scores[client.userId] += 10: a key the object does not have
\* reads as undefined, and undefined + 10 is NaN
addAward(scores, u) ==
    [p \in DOMAIN scores \cup {u} |->
        IF p # u THEN scores[p]
        ELSE IF u \in DOMAIN scores /\ scores[u] # NaN THEN scores[u] + Award
        ELSE NaN]

\* a variant of the turn check that refuses only the other player of the game
NotTheOtherPlayer(st, u) == u \in DOMAIN st.scores /\ st.currentGuesser # u

\* a variant of the turn check that lets either player of the game guess
NotAPlayer(st, u) == u \notin DOMAIN st.scores

\* the turn check
NotYourTurn(st, u) == st.currentGuesser # u

\* handleMakeGuess up to `await this.prisma.gameCard.updateMany`, or to its
\* end when the guess is rejected or incorrect
HandleMakeGuess(u, rid, guess) ==
    /\ fired' = NoTimer
    /\ LET s == IF rid = Room THEN gameStates ELSE 0 IN
       IF s = 0 \/ ~heap[s].isActive
       THEN /\ out' = <<ErrorTo(u, "No active game")>>
            /\ UNCHANGED <<heap, tasks, hist>>
       ELSE IF NotYourTurn(heap[s], u)
       THEN /\ out' = <<ErrorTo(u, "Not your turn to guess")>>
            /\ UNCHANGED <<heap, tasks, hist>>
       ELSE IF heap[s].currentCard = NoCard
       THEN /\ out' = <<ErrorTo(u, "No card to guess")>>
            /\ UNCHANGED <<heap, tasks, hist>>
       ELSE IF isCorrect(heap[s].currentCard, guess)
       THEN /\ Accepted < MaxCorrect
            /\ InFlight < MaxInFlight
            /\ heap' = [heap EXCEPT ![s].scores = addAward(@, u)]
            /\ tasks' = AddTask(tasks,
                                [Task("guess", s, 0, u, NoCard)
                                    EXCEPT !.round = heap[s].currentRound])
            /\ hist' = [hist EXCEPT ![s].awards = @ + 1,
                                    ![s].accepted = @ + 1]
            /\ out' = <<>>
       ELSE IncorrectGuess(u, guess)
    /\ UNCHANGED <<catalogue, cached, room, games, gameCards, gameResults, joined, gameStates,
                   roomTimers, timers, pending, now>>

\* gameCard.updateMany({where: {gameId: gameState.roomId, round}, ...})
updateGuessed(rows, roomId, round, u) ==
    {IF r.gameId = roomId /\ r.round = round
     THEN [r EXCEPT !.isGuessed = TRUE, !.guessedBy = u] ELSE r : r \in rows}

\* the database executes the gameCard.updateMany of a waiting
\* handleMakeGuess
MakeGuessUpdate(t) ==
    /\ BagIn(t, tasks) /\ t.kind = "guess"
    /\ gameCards' = updateGuessed(gameCards, heap[t.s].roomId, t.round, t.user)
    /\ tasks' = AddTask(RemoveTask(t), [t EXCEPT !.kind = "guessed"])
    /\ out' = <<>>
    /\ fired' = NoTimer
    /\ UNCHANGED <<catalogue, cached, room, games, gameResults, joined, heap,
                   gameStates, roomTimers, timers, pending, now, hist>>

\* history: the timers armed for the round that the guess resolved
MarkGuessed(ts, stamp) ==
    {IF tm.stamp = stamp THEN [tm EXCEPT !.guessed = TRUE] ELSE tm : tm \in ts}

\* handleMakeGuess resumes after updateMany: correctGuess is broadcast, then
\* the game is ended or the next round scheduled
MakeGuessContinue(t) ==
    /\ BagIn(t, tasks) /\ t.kind = "guessed"
    /\ LET st == heap[t.s]
           ts == IF Resolves(t.s)
                 THEN MarkGuessed(timers, st.roundStartTime) ELSE timers IN
       /\ out' = <<Emit(ToRoom, "correctGuess",
                        [guesser |-> Username(t.user),
                         card |-> CardOrUndefined(st.currentCard),
                         scores |-> st.scores])>>
       /\ IF st.currentRound >= st.maxRounds
          THEN /\ EndGameBegin(heap, ts, RemoveTask(t))
               /\ UNCHANGED <<pending, hist>>
          ELSE /\ pending' = pending + 1
               /\ timers' = ts
               /\ tasks' = RemoveTask(t)
               /\ hist' = IF Resolves(t.s)
                          THEN [hist EXCEPT ![t.s].resolved = st.currentRound]
                          ELSE hist
               /\ UNCHANGED <<heap, roomTimers>>
    /\ fired' = NoTimer
    /\ UNCHANGED <<catalogue, cached, room, games, gameCards, gameResults, joined,
                   gameStates, now>>

\* handleMakeGuess resumes with gameCard.updateMany rejected: the catch
\* block logs the error and tells the caller
MakeGuessFails(t) ==
    /\ BagIn(t, tasks) /\ t.kind = "guess"
    /\ out' = <<ErrorTo(t.user, "Failed to make guess")>>
    /\ tasks' = RemoveTask(t)
    /\ fired' = NoTimer
    /\ UNCHANGED <<catalogue, cached, room, games, gameCards, gameResults, joined, heap,
                   gameStates, roomTimers, timers, pending, now, hist>>

(***************************************************************************)
(* handleRequestHint                                                       *)
(***************************************************************************)
HandleRequestHint(u, rid) ==
    /\ LET s == IF rid = Room THEN gameStates ELSE 0 IN
       IF s = 0 \/ heap[s].currentCard = NoCard
       THEN out' = <<ErrorTo(u, "No active card")>>
       ELSE IF heap[s].currentGuesser # u
       THEN out' = <<ErrorTo(u, "Not your turn")>>
       ELSE \E i \in 1..Len(Hints(heap[s].currentCard)) :
               out' = <<Emit(u, "hintReceived",
                             [hint |-> Hints(heap[s].currentCard)[i]])>>
    /\ fired' = NoTimer
    /\ UNCHANGED <<catalogue, cached, room, games, gameCards, gameResults, joined, heap,
                   gameStates, roomTimers, timers, pending, tasks, now, hist>>

(***************************************************************************)
(* The specification                                                       *)
(***************************************************************************)
\* the steps of a handleStartGame that waits
StartGameSteps ==
    \/ \E t \in BagToSet(tasks) : StartGameChecks(t)
    \/ \E t \in BagToSet(tasks) : StartGameCreate(t)
    \/ \E t \in BagToSet(tasks) : StartGameSession(t)
    \/ \E t \in BagToSet(tasks) : StartGameRoomUpdate(t)
    \/ \E t \in BagToSet(tasks) : StartGameContinue(t)

\* the steps of a startNewRound that waits, with those of the
\* getRandomCards it calls while no card is written
StartNewRoundSteps ==
    \/ \E t \in BagToSet(tasks) : StartNewRoundRoomRead(t)
    \/ \E t \in BagToSet(tasks) : StartNewRoundRoom(t)
    \/ \E t \in BagToSet(tasks) : GetRandomCardsGet(t)
    \/ \E t \in BagToSet(tasks) : GetRandomCardsCached(t)
    \/ \E t \in BagToSet(tasks) : GetRandomCardsCount(t)
    \/ \E t \in BagToSet(tasks) : GetRandomCardsCounted(t)
    \/ \E t \in BagToSet(tasks) : GetRandomCardsFind(t)
    \/ \E t \in BagToSet(tasks) : GetRandomCardsFound(t)
    \/ \E t \in BagToSet(tasks) : GetRandomCardsCache(t)
    \/ \E t \in BagToSet(tasks) : GetRandomCardsReturn(t)
    \/ \E t \in BagToSet(tasks) : StartNewRoundRoomDataRead(t)
    \/ \E t \in BagToSet(tasks) : StartNewRoundRoomData(t)
    \/ \E t \in BagToSet(tasks) : StartNewRoundCreate(t)
    \/ \E t \in BagToSet(tasks) : StartNewRoundCreated(t)

\* the steps of an endGame that waits
EndGameSteps ==
    \/ \E t \in BagToSet(tasks) : EndGameFind(t)
    \/ \E t \in BagToSet(tasks) : EndGameFound(t)
    \/ \E t \in BagToSet(tasks) : EndGameUpdate(t)
    \/ \E t \in BagToSet(tasks) : EndGameUpdated(t)
    \/ \E t \in BagToSet(tasks) : EndGameResult(t)
    \/ \E t \in BagToSet(tasks) : EndGameResulted(t)
    \/ \E t \in BagToSet(tasks) : EndGameRoomUpdate(t)
    \/ \E t \in BagToSet(tasks) : EndGameFinish(t)

\* the steps that run a started game with no command: the continuations of
\* startGame, startNewRound and endGame, and the timers
RoundSteps ==
    \/ StartGameSteps
    \/ DelayedStartNewRound
    \/ StartNewRoundSteps
    \/ \E tm \in timers : HandleRoundTimeout(tm)
    \/ EndGameSteps

\* the game engine: the commands and events that read or write a GameState,
\* for the first game of the room (the creator starts one game)
NextEngine ==
    \/ GamesBegun = 0 /\ HandleStartGame(Creator, Room)
    \/ RoundSteps
    \/ \E u \in Players, guess \in GuessTexts : HandleMakeGuess(u, Room, guess)
    \/ \E t \in BagToSet(tasks) : MakeGuessUpdate(t)
    \/ \E t \in BagToSet(tasks) : MakeGuessContinue(t)

\* a game that no player sends a guess in, the operations of CardsService
\* on the cards and GET /cards/random, with the expiry of the cache entry
NextCards ==
    \/ GamesBegun = 0 /\ HandleStartGame(Creator, Room)
    \/ RoundSteps
    \/ \E t \in BagToSet(tasks) : GetRandomCardsMore(t)
    \/ \E t \in BagToSet(tasks) : GetRandomCardsMoreFound(t)
    \/ CardsGetRandomCards
    \/ CacheExpires
    \/ \E c \in Cards, active \in BOOLEAN : CardsCreate(c, active)
    \/ \E t \in BagToSet(tasks) : CardsCreateChecks(t)
    \/ \E t \in BagToSet(tasks) : CardsCreateWrite(t)
    \/ \E c \in Cards, active \in BOOLEAN : CardsUpdate(c, active)
    \/ \E t \in BagToSet(tasks) : CardsUpdateChecks(t)
    \/ \E t \in BagToSet(tasks) : CardsUpdateWrite(t)
    \/ \E c \in Cards : CardsRemove(c)
    \/ \E t \in BagToSet(tasks) : CardsRemoveChecks(t)
    \/ \E t \in BagToSet(tasks), onDelete \in ReferentialActions :
          CardsRemoveWrite(t, onDelete)
    \/ \E t \in BagToSet(tasks) : CardsWritten(t)
    \/ \E t \in BagToSet(tasks) : CardsInvalidate(t)
    \/ \E t \in BagToSet(tasks) : CardsReturn(t)

\* games that no player sends a guess in, the players sending startGame
\* for the room and for an unknown room at any moment, the creator starting
\* up to MaxGames games
NextRestart ==
    \/ \E u \in Players, rid \in RoomIds :
          /\ GamesBegun < MaxGames \/ u # Creator \/ rid # Room
          /\ HandleStartGame(u, rid)
    \/ RoundSteps

\* the engine and requestHint
NextHint ==
    \/ NextEngine
    \/ \E u \in Players, rid \in RoomIds : HandleRequestHint(u, rid)

\* a game that the creator starts and that no player sends a guess in, and
\* the commands of a connection with no user attached
NextAnonymous ==
    \/ GamesBegun = 0 /\ HandleStartGame(Creator, Room)
    \/ RoundSteps
    \/ \E rid \in RoomIds : HandleJoinRoom(Anonymous, rid)
    \/ \E t \in BagToSet(tasks) : JoinRoomChecks(t)
    \/ \E rid \in RoomIds : HandleStartGame(Anonymous, rid)
    \/ \E rid \in RoomIds, guess \in GuessTexts :
          HandleMakeGuess(Anonymous, rid, guess)
    \/ \E rid \in RoomIds : HandleRequestHint(Anonymous, rid)

\* the engine with awaited calls of handleStartGame, startNewRound,
\* handleMakeGuess and endGame that may be rejected
NextFailure ==
    \/ NextEngine
    \/ \E rid \in RoomIds : StartGameReadFails(Creator, rid)
    \/ \E t \in BagToSet(tasks) : StartGameFails(t)
    \/ \E t \in BagToSet(tasks) : StartNewRoundFails(t)
    \/ \E t \in BagToSet(tasks) : MakeGuessFails(t)
    \/ \E t \in BagToSet(tasks) : EndGameFails(t)

\* a game of one round, in which no next round is ever scheduled: the
\* creator's startGame, the guesses of the users and the steps they lead to
NextOneRound ==
    \/ GamesBegun = 0 /\ HandleStartGame(Creator, Room)
    \/ StartGameSteps
    \/ StartNewRoundSteps
    \/ \E tm \in timers : HandleRoundTimeout(tm)
    \/ EndGameSteps
    \/ \E u \in Users, guess \in GuessTexts : HandleMakeGuess(u, Room, guess)
    \/ \E t \in BagToSet(tasks) : MakeGuessUpdate(t)
    \/ \E t \in BagToSet(tasks) : MakeGuessContinue(t)

\* a game of one round, and the two players joining and leaving the room's
\* channel
NextLeave ==
    \/ NextOneRound
    \/ \E u \in Players : HandleJoinRoom(u, Room)
    \/ \E t \in BagToSet(tasks) : JoinRoomChecks(t)
    \/ \E t \in BagToSet(tasks) : JoinRoomContinue(t)
    \/ \E u \in Players : HandleLeaveRoom(u)
    \/ \E t \in BagToSet(tasks) : LeaveRoomContinue(t)
    \/ \E u \in Players : JoinRoomReadFails(u, Room)

\* a game of one round, the users asking for hints, and HTTP operations of
\* RoomsService at any moment: joinRoom and leaveRoom of the users other
\* than the creator, and startGame of the creator.  A GameResult row whose
\* score is NaN may be refused by the database client.
NextRooms ==
    \/ NextOneRound
    \/ \E u \in Users : HandleRequestHint(u, Room)
    \/ \E u \in Users \ {Creator} : RoomsJoinRoom(u)
    \/ \E t \in BagToSet(tasks) : RoomsJoinRoomChecks(t)
    \/ \E t \in BagToSet(tasks) : RoomsJoinRoomFindActive(t)
    \/ \E t \in BagToSet(tasks) : RoomsJoinRoomActive(t)
    \/ \E t \in BagToSet(tasks) : RoomsJoinRoomUpdate(t)
    \/ \E t \in BagToSet(tasks) : RoomsJoinRoomReturn(t)
    \/ \E u \in Users \ {Creator} : RoomsLeaveRoom(u)
    \/ \E t \in BagToSet(tasks) : RoomsLeaveRoomChecks(t)
    \/ \E t \in BagToSet(tasks) : RoomsLeaveRoomUpdate(t)
    \/ \E t \in BagToSet(tasks) : RoomsLeaveRoomReturn(t)
    \/ RoomsStartGame(Creator)
    \/ \E t \in BagToSet(tasks) : RoomsStartGameChecks(t)
    \/ \E t \in BagToSet(tasks) : RoomsStartGameUpdate(t)
    \/ \E t \in BagToSet(tasks) : RoomsStartGameReturn(t)
    \/ \E t \in BagToSet(tasks) :
          /\ t.kind = "endResult"
          /\ \E r \in GameResultRows(t.gameId, heap[t.s]) :
                r.position = t.i /\ r.score = NaN
          /\ EndGameFails(t)

\* the engine and the channel membership commands of the two players
Next ==
    \/ NextEngine
    \/ \E u \in Players, rid \in RoomIds : HandleJoinRoom(u, rid)
    \/ \E t \in BagToSet(tasks) : JoinRoomChecks(t)
    \/ \E t \in BagToSet(tasks) : JoinRoomContinue(t)
    \/ \E u \in Players : HandleLeaveRoom(u)
    \/ \E t \in BagToSet(tasks) : LeaveRoomContinue(t)

\* a room whose maxRounds is positive, with a catalogue that holds the
\* first card or no card
InitRoom == Init /\ catalogue[2] = "none" /\ room.maxRounds > 0

\* a room with both players whose games have one round, the catalogue
\* holding the first card
InitOneRound ==
    InitRoom /\ Active = {1} /\ room.guestId = Guest /\ room.maxRounds = 1

\* a room with both players whose games have two rounds, the catalogue
\* holding the first card
InitTwoRounds ==
    InitRoom /\ Active = {1} /\ room.guestId = Guest /\ room.maxRounds = 2

Spec == InitRoom /\ [][Next]_vars

\* the engine alone: no socket ever joins or leaves the channel
SpecEngine == InitRoom /\ [][NextEngine]_vars

\* the engine for a room with any of the settings and any of the catalogues
SpecSettings == Init /\ [][NextEngine]_vars

\* timer-driven games with restarts
SpecRestart == InitRoom /\ [][NextRestart]_vars

\* the engine with requestHint
SpecHint == InitRoom /\ [][NextHint]_vars

\* the engine with rejected persistence calls
SpecFailure == InitRoom /\ [][NextFailure]_vars

\* a game of one round with the players joining and leaving
SpecLeave == InitOneRound /\ [][NextLeave]_vars

\* the engine with the Room row written by RoomsService
SpecRooms == InitOneRound /\ [][NextRooms]_vars

\* the unauthenticated connection during a game that runs on its timers
SpecAnonymous == Init /\ [][NextAnonymous]_vars

\* a timer-driven game of two rounds while the cards are edited and read
SpecCards == InitTwoRounds /\ [][NextCards]_vars

(***************************************************************************)
(* Properties                                                              *)
(***************************************************************************)
Sessions == 1..Len(heap)
Has(ev) == \E i \in 1..Len(out) : out[i].ev = ev

\* a notification reaches u: it was sent to u, or to the channel u is in
DeliveredTo(m, u) == m.to = u \/ (m.to = ToRoom /\ u \in joined)

\* C1: each player's score is incremented at most once per round, however
\* many matching guesses the guesser sends before the next round starts,
\* and scores never decrease.
C1_ScoreOncePerRound ==
    [][\A s \in 1..Len(heap') :
          /\ hist'[s].awards <= 1
          /\ s \in Sessions =>
                \A p \in DOMAIN heap[s].scores :
                    heap'[s].scores[p] >= heap[s].scores[p]]_vars

\* C2: once a correct guess has resolved a round, the timer armed for that
\* round never fires a roundTimeout.
C2_NoTimeoutAfterCorrectGuess ==
    Has("roundTimeout") => ~fired.guessed

\* the GameResult rows of a game and a player
ResultRowsOf(game, u) ==
    {r \in BagToSet(gameResults) : r.gameId = GameId(game) /\ r.userId = u}

\* C3: finalization takes effect once per session under every interleaving
\* of the guess path and the timeout path: at most one gameEnded is
\* broadcast and at most one GameResult row per player is persisted.
C3_FinalizedOnce ==
    /\ \A s \in Sessions : hist[s].ended <= 1
    /\ \A game \in 1..Len(games), u \in Users :
          /\ Cardinality(ResultRowsOf(game, u)) <= 1
          /\ \A r \in ResultRowsOf(game, u) : CopiesIn(r, gameResults) = 1

\* C4: for every two consecutive rounds announced by newRound in a session,
\* the currentGuesser announced for the later round is the other one of the
\* two players, also when a correct guess and a timeout both schedule a
\* next-round start.
C4_GuesserAlternates ==
    \A s \in Sessions :
        hist[s].before # NoUser =>
            /\ hist[s].last \in {Creator, Guest}
            /\ hist[s].before \in {Creator, Guest}
            /\ hist[s].last # hist[s].before

\* C5: the first newRound of a session names the room's creator as
\* currentGuesser.
C5_CreatorGuessesFirst ==
    \A s \in Sessions : hist[s].started = 1 => hist[s].last = Creator

\* C6: a correct guess by the current guesser in round k < maxRounds makes
\* the next newRound carry round k + 1; the guess adds 10 to the guesser's
\* score and leaves the other player's score unchanged.
C6_CorrectGuessAdvancesRound ==
    [][\A s \in Sessions :
          /\ (hist[s].resolved # 0 /\ hist'[s].started = hist[s].started + 1)
                => hist'[s].round = hist[s].resolved + 1
          /\ hist'[s].awards = hist[s].awards + 1 =>
                \A p \in DOMAIN heap[s].scores :
                    heap'[s].scores[p] =
                        IF p = heap[s].currentGuesser
                        THEN heap[s].scores[p] + 10 ELSE heap[s].scores[p]]_vars

\* C7: at most maxRounds rounds are ever started in one session.
C7_AtMostMaxRoundsStarted ==
    \A s \in Sessions : hist[s].started <= heap[s].maxRounds

\* the round of the card in play is unresolved: the card has been announced
\* and neither a correct guess nor a timeout has resolved it
Unresolved(s) ==
    /\ heap[s].isActive
    /\ heap[s].currentCard # NoCard
    /\ Announced(s)
    /\ hist[s].awards = 0
    /\ ~hist[s].timedOut

\* the card object a newRound, gameStarted or gameState notification carries
CardIn(m) ==
    CASE m.ev = "newRound" -> m.data.card
      [] m.ev = "gameStarted" -> m.data.gameState.currentCard
      [] m.ev = "gameState" -> m.data.currentCard
      [] OTHER -> [id |-> NoCard]

\* C8: while a round is unresolved, no newRound, gameStarted or gameState
\* notification delivered to the current guesser contains the name of the
\* card in play.
C8_NameHiddenFromGuesser ==
    \A i \in 1..Len(out) :
        (/\ gameStates # 0
         /\ Unresolved(gameStates)
         /\ DeliveredTo(out[i], heap[gameStates].currentGuesser)
         /\ CardIn(out[i]).id = heap[gameStates].currentCard)
        => "name" \notin DOMAIN CardIn(out[i])

\* C9: a makeGuess from a player who is not currentGuesser, with any guess
\* text, leaves the session, the timers and the scheduled round starts
\* unchanged, and only the caller gets the error 'Not your turn to guess'.
C9_NotYourTurnChangesNothing ==
    [][\A u \in Players, guess \in GuessTexts :
          (/\ gameStates # 0
           /\ heap[gameStates].isActive
           /\ heap[gameStates].currentGuesser # u
           /\ HandleMakeGuess(u, Room, guess))
          => /\ UNCHANGED <<heap, gameStates, roomTimers, timers, pending,
                            tasks, room, games, gameCards, gameResults>>
             /\ out' = <<ErrorTo(u, "Not your turn to guess")>>]_vars

\* C9 witness: a player other than the guesser has just been refused while
\* a card is in play and its round timer is running.
C9_Witness ==
    /\ gameStates # 0
    /\ heap[gameStates].isActive
    /\ heap[gameStates].currentCard # NoCard
    /\ timers # {}
    /\ \E u \in {Creator, Guest} :
          /\ u # heap[gameStates].currentGuesser
          /\ out = <<ErrorTo(u, "Not your turn to guess")>>

\* C10: an incorrect guess by the current guesser leaves scores, round,
\* currentGuesser, currentCard, the timers and the scheduled round starts
\* unchanged; its only effect is the incorrectGuess broadcast.
C10_IncorrectGuessChangesNothing ==
    [][\A u \in Players, guess \in GuessTexts :
          (/\ gameStates # 0
           /\ heap[gameStates].isActive
           /\ heap[gameStates].currentGuesser = u
           /\ heap[gameStates].currentCard # NoCard
           /\ toLowerCase(CardName(heap[gameStates].currentCard))
                 # toLowerCase(guess)
           /\ HandleMakeGuess(u, Room, guess))
          => /\ UNCHANGED <<heap, gameStates, roomTimers, timers, pending,
                            tasks, room, games, gameCards, gameResults>>
             /\ out' = <<Emit(ToRoom, "incorrectGuess",
                              [guesser |-> Username(u), guess |-> guess])>>]_vars

\* C10 witness: the guesser's wrong guess has just been broadcast while the
\* round's timer is still running.
C10_Witness ==
    /\ gameStates # 0
    /\ heap[gameStates].isActive
    /\ heap[gameStates].currentCard # NoCard
    /\ roomTimers # 0
    /\ \E tm \in timers : tm.id = roomTimers
    /\ Len(out) = 1
    /\ out[1].ev = "incorrectGuess"
    /\ out[1].data.guesser = Username(heap[gameStates].currentGuesser)

\* C11: in every session each player's score is a non-negative multiple of
\* 10 and the scores map has exactly two keys, the creator and the guest the
\* session was created with.
C11_ScoresMultipleOfTen ==
    \A s \in Sessions :
        /\ Creator \in DOMAIN heap[s].scores
        /\ Cardinality(DOMAIN heap[s].scores) = 2
        /\ \A p \in DOMAIN heap[s].scores :
              /\ heap[s].scores[p] \in Nat
              /\ heap[s].scores[p] % 10 = 0

\* C12: a startGame succeeds only when its caller is the room's creator and
\* the room has a guest: the step in which handleStartGame decides gives
\* the caller an error and creates nothing when the caller is not the
\* creator, the room is unknown or the room has no guest, and it leaves the
\* session store, the timers and the Room row as they are.
C12_StartGameRefused ==
    [][\A t \in BagToSet(tasks) :
          (/\ t.kind = "startFound"
           /\ t.user # Creator \/ t.roomId # Room \/ room.guestId = NoUser
           /\ StartGameChecks(t))
          => /\ Len(out') = 1
             /\ out'[1].to = t.user
             /\ out'[1].ev = "error"
             /\ tasks' = RemoveTask(t)
             /\ UNCHANGED <<heap, gameStates, roomTimers, timers, pending,
                            room, games>>]_vars

\* C13: a startGame for a room that already has a session in the store fails
\* with an error to the caller and leaves the existing session untouched:
\* its scores, round, currentGuesser, currentCard and timer are not reset or
\* replaced.
C13_StartGameConflict ==
    [][\A t \in BagToSet(tasks) :
          (/\ gameStates # 0
           /\ t.kind = "startFound"
           /\ t.user = Creator
           /\ t.roomId = Room
           /\ StartGameChecks(t))
          => /\ Len(out') = 1
             /\ out'[1].to = Creator
             /\ out'[1].ev = "error"
             /\ tasks' = RemoveTask(t)
             /\ UNCHANGED <<heap, gameStates, roomTimers, timers>>]_vars

\* a session of the room has been finalized and evicted, and the store has
\* no session for the room
Evicted == gameStates = 0 /\ \E s \in Sessions : hist[s].ended >= 1

\* C14: after a session has been finalized and evicted, every makeGuess or
\* requestHint for the room is answered with an error to the caller only,
\* and no timer and no round start that runs late for it changes a score,
\* notifies the room (roundTimeout, newRound), arms a timer or recreates a
\* session.
C14_NoEffectAfterEviction ==
    [][Evicted =>
          /\ \A u \in Players :
                ((\E guess \in GuessTexts : HandleMakeGuess(u, Room, guess))
                   \/ HandleRequestHint(u, Room))
                => /\ Len(out') = 1
                   /\ out'[1].to = u
                   /\ out'[1].ev = "error"
          /\ \A s \in Sessions : heap'[s].scores = heap[s].scores
          /\ \A i \in 1..Len(out') :
                out'[i].ev \notin {"newRound", "roundTimeout"}
          /\ timers' \subseteq timers
          /\ gameStates' = 0]_vars

\* the GameResult rows of the room's latest game
LatestResults ==
    {r \in BagToSet(gameResults) : r.gameId = GameId(Len(games))}

\* C15: at finalization the players are ranked by descending score, ties in
\* enrollment order (creator first); each GameResult row has position = rank
\* and correctGuesses = score / 10; and the winner named in gameEnded is the
\* player persisted with position 1, also when the scores are equal.
C15_WinnerIsFirstRanked ==
    \A i \in 1..Len(out) :
        out[i].ev = "gameEnded" =>
            /\ \A r \in LatestResults :
                  /\ r.correctGuesses = r.score \div 10
                  /\ r.score = out[i].data.finalScores[r.userId]
                  /\ r.position = 1 => r.userId = out[i].data.winner
            /\ \A r1, r2 \in LatestResults :
                  r1.position < r2.position =>
                      /\ r1.score >= r2.score
                      /\ r1.score = r2.score => r1.userId = Creator
            /\ \A u \in Players : \E r \in LatestResults : r.userId = u

\* C16: every joinRoom, startGame, makeGuess and requestHint of a connection
\* with no user attached is refused with an error to that connection and
\* changes no room or session state: no session is created, no score, round
\* or guesser changes, no timer is armed.  The step in which a joinRoom or
\* startGame arrives only leaves its handler waiting for the Room row, and
\* the step in which the handler resumes refuses it.
C16_AnonymousChangesNothing ==
    [][/\ \A rid \in RoomIds :
             /\ (HandleJoinRoom(Anonymous, rid)
                   \/ HandleStartGame(Anonymous, rid))
                => /\ out' = <<>>
                   /\ UNCHANGED <<heap, gameStates, roomTimers, timers,
                                  pending, room, games, gameCards,
                                  gameResults, joined>>
             /\ ((\E guess \in GuessTexts :
                     HandleMakeGuess(Anonymous, rid, guess))
                   \/ HandleRequestHint(Anonymous, rid))
                => /\ Len(out') = 1
                   /\ out'[1].to = Anonymous
                   /\ out'[1].ev = "error"
                   /\ UNCHANGED <<heap, gameStates, roomTimers, timers,
                                  pending, tasks, room, games, gameCards,
                                  gameResults, joined>>
       /\ \A t \in BagToSet(tasks) :
             (/\ t.user = Anonymous
              /\ CopiesIn(t, tasks') < CopiesIn(t, tasks))
             => /\ Len(out') = 1
                /\ out'[1].to = Anonymous
                /\ out'[1].ev = "error"
                /\ tasks' = RemoveTask(t)
                /\ UNCHANGED <<heap, gameStates, roomTimers, timers,
                               pending, room, games, gameCards,
                               gameResults, joined>>]_vars

\* C16 witness: the guess of a connection with no user attached has just
\* been refused while a card is in play and its round timer is running.
C16_Witness ==
    /\ gameStates # 0
    /\ heap[gameStates].isActive
    /\ heap[gameStates].currentCard # NoCard
    /\ timers # {}
    /\ out = <<ErrorTo(Anonymous, "Not your turn to guess")>>

\* C17: when the creator leaves the room (or disconnects) while the room's
\* session is active, the session is abandoned: by the end of the leave it
\* is no longer active in the store and its round timer is cancelled.
C17_CreatorLeavingAbandons ==
    [][(/\ gameStates # 0
        /\ heap[gameStates].isActive
        /\ Creator \in joined
        /\ HandleLeaveRoom(Creator))
          => /\ gameStates' = 0 \/ ~heap'[gameStates'].isActive
             /\ \A tm \in timers' : tm.id # roomTimers]_vars

\* C18: a room has at most one live round timer at every instant, also when
\* two round starts overlap, and no round timer is live for a room whose
\* session has been evicted or is being finalized.
C18_OneLiveTimer ==
    /\ Cardinality(timers) <= 1
    /\ (gameStates = 0 \/ ~heap[gameStates].isActive) => timers = {}

\* C19: when a correct guess and a timeout race for a round, one of them
\* resolves it and the other does nothing: for a card in play not both a
\* correct guess and a roundTimeout are applied, and at most one next-round
\* start is scheduled.
C19_OneResolutionPerRound ==
    /\ \A s \in Sessions : ~(hist[s].timedOut /\ hist[s].awards >= 1)
    /\ pending <= 1

\* C20: while a session is active its round is between 1 and maxRounds; the
\* round never decreases; and the step that makes the round exceed maxRounds
\* marks the session inactive in the same step, with its finalization on
\* the way to evicting it.
C20_RoundWithinBounds ==
    [][\A s \in 1..Len(heap') :
          /\ heap'[s].isActive =>
                /\ 1 <= heap'[s].currentRound
                /\ heap'[s].currentRound <= heap'[s].maxRounds
          /\ s \in Sessions =>
                /\ heap'[s].currentRound >= heap[s].currentRound
                /\ (/\ heap[s].currentRound <= heap[s].maxRounds
                    /\ heap'[s].currentRound > heap'[s].maxRounds)
                   => /\ ~heap'[s].isActive
                      /\ \E t \in BagToSet(tasks') :
                            t.kind \in EndKinds /\ t.s = s]_vars

\* C21: once the room is FINISHED, no step moves it out of FINISHED or
\* creates a new session for it, and a startGame from the creator that
\* finds the room finished is rejected with an error.
C21_FinishedIsTerminal ==
    [][room.status = "FINISHED" =>
          /\ room'.status = "FINISHED"
          /\ Len(heap') = Len(heap)
          /\ gameStates = 0 => gameStates' = 0
          /\ \A t \in BagToSet(tasks) :
                (/\ t.kind = "startFound"
                 /\ t.user = Creator
                 /\ t.seen.status = "FINISHED"
                 /\ StartGameChecks(t))
                => /\ Len(out') = 1
                   /\ out'[1].ev = "error"
                   /\ out'[1].to = Creator]_vars

\* C22: when the write that marks the card as guessed fails during a
\* correct guess, the transition still completes: every step that ends the
\* wait of an accepted guess, whether the write succeeded or not, leaves the
\* scores as they are, broadcasts correctGuess with those scores, and
\* schedules the next round or begins the finalization of the session.
C22_GuessSurvivesWriteFailure ==
    [][\A t \in BagToSet(tasks) :
          (/\ t.kind \in {"guess", "guessed"}
           /\ CopiesIn(t, tasks') < CopiesIn(t, tasks)
           /\ ~MakeGuessUpdate(t)) =>
             /\ heap'[t.s].scores = heap[t.s].scores
             /\ \E i \in 1..Len(out') :
                   /\ out'[i].ev = "correctGuess"
                   /\ out'[i].to = ToRoom
                   /\ out'[i].data.scores = heap[t.s].scores
             /\ IF heap[t.s].currentRound >= heap[t.s].maxRounds
                THEN gameStates' = 0 \/ ~heap'[gameStates'].isActive
                ELSE pending' = pending + 1]_vars

\* C23: no session is left in the store marked inactive: a session in the
\* store that is inactive has its finalization on the way, also after a
\* persistence write of the finalization failed.
C23_FinalizationEvicts ==
    (gameStates # 0 /\ ~heap[gameStates].isActive) =>
        \E t \in BagToSet(tasks) : t.kind \in EndKinds /\ t.s = gameStates

\* C24: when a round start finds no card, the room is notified with an
\* error and the round state is not changed: the step in which startNewRound
\* is given no card and gives up, every step it took before, and the step
\* in which it began, leave round, currentCard, currentGuesser,
\* roundStartTime and scores of the session as they were.
C24_NoCardsChangesNothing ==
    [][/\ \A t \in BagToSet(tasks) :
             (/\ t.s # 0
              /\ t.kind \in {"snrRoom", "snrRoomFound", "grcGet", "grcGot",
                             "grcCount", "grcCounted", "grcFind", "grcFound",
                             "grcMore", "grcMoreFound", "grcSet",
                             "grcSetDone"}
              /\ CopiesIn(t, tasks') < CopiesIn(t, tasks)
              /\ \A n \in BagToSet(tasks') :
                    (n.kind = "snrRoomData" /\ n.s = t.s)
                       => CopiesIn(n, tasks') <= CopiesIn(n, tasks))
                => /\ heap'[t.s] = heap[t.s]
                   /\ BagCardinality(tasks') < BagCardinality(tasks)
                        => \E i \in 1..Len(out') :
                              /\ out'[i].ev = "error"
                              /\ out'[i].to = ToRoom
                              /\ out'[i].data.message = "No cards available"
       /\ \A s \in Sessions :
             (\E t \in BagToSet(tasks') :
                 t.kind = "snrRoom" /\ t.s = s
                 /\ CopiesIn(t, tasks') > CopiesIn(t, tasks))
                => heap'[s] = heap[s]]_vars

\* C24 witness: a round start after the first round found no card: the room
\* was told, and the session still has the card and the round it had.
C24_Witness ==
    /\ \E i \in 1..Len(out) :
          /\ out[i].ev = "error"
          /\ out[i].to = ToRoom
          /\ out[i].data.message = "No cards available"
    /\ gameStates # 0
    /\ heap[gameStates].currentCard # NoCard
    /\ heap[gameStates].currentRound >= 2
    /\ heap[gameStates].isActive

\* C25: for every round announced by newRound in a game, a GameCard row is
\* persisted for that game and round with the card in play, and after a
\* correct guess has been broadcast for a round, the row of that game and
\* round is marked as guessed by the guesser.
C25_GameCardPerRound ==
    /\ \A s \in Sessions :
          (hist[s].started >= 1 /\ Len(out) >= 1 /\ out[1].ev = "newRound") =>
             \E r \in gameCards :
                /\ r.gameId = GameId(hist[s].game)
                /\ r.round = out[1].data.round
                /\ r.cardId = out[1].data.card.id
    /\ \A i \in 1..Len(out) :
          (out[i].ev = "correctGuess" /\ gameStates # 0) =>
             \E r \in gameCards :
                /\ r.gameId = GameId(hist[gameStates].game)
                /\ r.round = heap[gameStates].currentRound
                /\ r.isGuessed
                /\ Username(r.guessedBy) = out[i].data.guesser


\* C26: requestHint, whether it succeeds or fails, changes no field of the
\* session and neither cancels nor arms a round timer; a hint is delivered
\* only to the caller, only when the caller is the current guesser of the
\* room's session and only while a card is in play: the session is active
\* and has a current card.
C26_HintChangesNothing ==
    [][\A u \in Players, rid \in RoomIds :
          HandleRequestHint(u, rid) =>
             /\ UNCHANGED <<heap, gameStates, roomTimers, timers, pending,
                            tasks, gameCards>>
             /\ Len(out') = 1
             /\ out'[1].to = u
             /\ out'[1].ev \in {"error", "hintReceived"}
             /\ out'[1].ev = "hintReceived" =>
                   /\ rid = Room
                   /\ gameStates # 0
                   /\ heap[gameStates].currentGuesser = u
                   /\ heap[gameStates].isActive
                   /\ heap[gameStates].currentCard # NoCard
                   /\ out'[1].data.hint \in
                         {Hints(heap[gameStates].currentCard)[i] :
                             i \in 1..Len(Hints(heap[gameStates].currentCard))}]_vars

\* C27: leaveRoom and disconnect of either player, and joining again, leave
\* the room's session, its round timer and the scheduled round starts
\* unchanged, in every step of their handlers; and a guess of the current
\* guesser on the card of an active session is resolved in the same way
\* whether or not the guesser's socket is in the room's channel: a matching
\* guess adds 10 to the guesser's score, any other guess is broadcast as
\* incorrect and changes nothing.
C27_LeaveKeepsSessionAndTimer ==
    [][/\ \/ UNCHANGED <<heap, gameStates, roomTimers, timers, pending>>
          \/ /\ \A u \in Players :
                   ~(HandleLeaveRoom(u) \/ HandleJoinRoom(u, Room))
             /\ \A t \in BagToSet(tasks) :
                   ~(JoinRoomChecks(t) \/ JoinRoomContinue(t)
                        \/ LeaveRoomContinue(t))
       /\ \A u \in Players, guess \in GuessTexts :
             (/\ gameStates # 0
              /\ heap[gameStates].isActive
              /\ heap[gameStates].currentGuesser = u
              /\ heap[gameStates].currentCard # NoCard
              /\ HandleMakeGuess(u, Room, guess)) =>
                IF isCorrect(heap[gameStates].currentCard, guess)
                THEN heap'[gameStates].scores[u] =
                        heap[gameStates].scores[u] + Award
                ELSE /\ heap' = heap
                     /\ Len(out') = 1
                     /\ out'[1].ev = "incorrectGuess"]_vars

\* C27 witness: the current guesser has just left the channel of a room
\* whose session is active with its round timer live.
C27_Witness ==
    /\ gameStates # 0
    /\ heap[gameStates].isActive
    /\ heap[gameStates].currentCard # NoCard
    /\ \E tm \in timers : tm.id = roomTimers
    /\ \E i \in 1..Len(out) :
          /\ out[i].ev = "userLeft"
          /\ out[i].data.userId = heap[gameStates].currentGuesser

\* C28: a user who is neither the creator nor the guest of the room never
\* gets into the room's channel, never starts its game, never scores in its
\* session and never receives a hint, whatever command it sends.
C28_OutsiderChangesNothing ==
    [][\A u \in Users :
          (u # Creator /\ u # room.guestId) =>
             /\ \A t \in BagToSet(tasks) :
                   (t.user = u /\ JoinRoomChecks(t)) => joined' = joined
             /\ \A t \in BagToSet(tasks) :
                   (t.user = u /\ StartGameChecks(t)) =>
                      tasks' = RemoveTask(t)
             /\ \A guess \in GuessTexts :
                   HandleMakeGuess(u, Room, guess) => heap' = heap
             /\ HandleRequestHint(u, Room) =>
                   \A i \in 1..Len(out') : out'[i].ev = "error"]_vars

\* C29: no session is ever stuck: whenever a session is in the store and
\* active, a round timer is live, or a next-round start is scheduled, or a
\* handler that will start a round, schedule one or finalize the session is
\* on its way.
C29_NeverStuck ==
    (gameStates # 0 /\ heap[gameStates].isActive) =>
        \/ timers # {}
        \/ pending > 0
        \/ tasks # EmptyBag

\* C30: between the resolution of a round, by a roundTimeout or by a
\* correctGuess that schedules the next round, and the newRound that starts
\* the next one, no step increases a score of the session.
C30_NoScoreBetweenRounds ==
    [][\A s \in Sessions :
          (/\ hist[s].started >= 1
           /\ hist'[s].started = hist[s].started
           /\ hist[s].timedOut \/ hist[s].resolved # 0) =>
             heap'[s].scores = heap[s].scores]_vars

====
